---- MODULE Spec2Model ----
(***************************************************************************)
(* tf2_geometry_msgs.h: application of a geometry_msgs TransformStamped to *)
(* Vector3, Vector3Stamped, PointStamped, PoseStamped, Wrench and          *)
(* WrenchStamped messages through KDL frames, the trivial toMsg/fromMsg    *)
(* conversions, and getCovarianceMatrix.                                   *)
(*                                                                         *)
(* float64 fields are modelled as exact numbers of the ring Z[sqrt 2][1/2]:*)
(* a number is <<a, b, k>>, standing for (a + b*sqrt(2)) / 2^k, kept in    *)
(* lowest terms so that equal numbers are equal tuples.  Every quaternion  *)
(* the model feeds to KDL is a unit quaternion of the binary octahedral    *)
(* group (components 0, +-1, +-1/2, +-sqrt(2)/2); on these inputs every    *)
(* product, sum, quotient and square root KDL computes stays in the ring.  *)
(***************************************************************************)
EXTENDS Integers, Sequences, FiniteSets

(***************************************************************************)
(* Exact arithmetic standing for the double arithmetic of the code.        *)
(***************************************************************************)
RECURSIVE Pow2(_)
Pow2(n) == IF n = 0 THEN 1 ELSE 2 * Pow2(n - 1)

Abs(i) == IF i < 0 THEN -i ELSE i

RECURSIVE Norm(_)
Norm(x) ==
  IF x[1] = 0 /\ x[2] = 0 THEN <<0, 0, 0>>
  ELSE IF x[3] > 0 /\ x[1] % 2 = 0 /\ x[2] % 2 = 0
       THEN Norm(<<x[1] \div 2, x[2] \div 2, x[3] - 1>>)
       ELSE x

Num(i) == <<i, 0, 0>>

Zero == Num(0)
One == Num(1)
Two == Num(2)
Half == <<1, 0, 1>>
Quarter == <<1, 0, 2>>
HalfSqrt2 == <<0, 1, 1>>

Neg(x) == <<-x[1], -x[2], x[3]>>

Add(x, y) ==
  LET k == IF x[3] > y[3] THEN x[3] ELSE y[3]
      fx == Pow2(k - x[3])
      fy == Pow2(k - y[3])
  IN Norm(<<x[1] * fx + y[1] * fy, x[2] * fx + y[2] * fy, k>>)

Sub(x, y) == Add(x, Neg(y))

Mul(x, y) ==
  Norm(<<x[1] * y[1] + 2 * x[2] * y[2], x[1] * y[2] + x[2] * y[1], x[3] + y[3]>>)

\* the sign of (a + b*sqrt(2)) / 2^k
Sign(x) ==
  LET a == x[1]
      b == x[2]
  IN IF a = 0 /\ b = 0 THEN 0
     ELSE IF a >= 0 /\ b >= 0 THEN 1
     ELSE IF a <= 0 /\ b <= 0 THEN -1
     ELSE IF a > 0 THEN (IF a * a > 2 * b * b THEN 1 ELSE -1)
     ELSE (IF 2 * b * b > a * a THEN 1 ELSE -1)

Gt(x, y) == Sign(Sub(x, y)) = 1

RECURSIVE Log2(_)
Log2(n) == IF n <= 1 THEN 0 ELSE 1 + Log2(n \div 2)

IsPow2(n) == n >= 1 /\ Pow2(Log2(n)) = n

\* x / y through the conjugate of y; exact when the norm c*c - 2*d*d of the
\* numerator of y is plus or minus a power of two
Div(x, y) ==
  LET c == y[1]
      d == y[2]
      n == c * c - 2 * d * d
      s == IF n < 0 THEN -1 ELSE 1
      inv == Norm(<<s * c * Pow2(y[3]), (-s) * d * Pow2(y[3]), Log2(Abs(n))>>)
  IN Mul(x, inv)

SqrtRange == {Norm(<<a, b, k>>) : a \in 0..4, b \in 0..2, k \in 0..2}

\* sqrt: the non-negative root
Sqrt(x) == CHOOSE r \in SqrtRange : Sign(r) >= 0 /\ Mul(r, r) = x

(***************************************************************************)
(* KDL (orocos_kdl frames) as the header uses it.  A KDL::Vector is        *)
(* <<x, y, z>>, a KDL::Rotation its nine row-major entries data[0..8]      *)
(* (here 1..9), a KDL::Frame the record [M, p].                            *)
(***************************************************************************)
KDLVector(x, y, z) == <<x, y, z>>

Sum3(a, b, c) == Add(Add(a, b), c)

\* KDL::Rotation::Quaternion(x, y, z, w): no normalisation
RotationQuaternion(x, y, z, w) ==
  LET x2 == Mul(x, x)
      y2 == Mul(y, y)
      z2 == Mul(z, z)
      w2 == Mul(w, w)
      xy == Mul(Two, Mul(x, y))
      xz == Mul(Two, Mul(x, z))
      yz == Mul(Two, Mul(y, z))
      wx == Mul(Two, Mul(w, x))
      wy == Mul(Two, Mul(w, y))
      wz == Mul(Two, Mul(w, z))
  IN << Sub(Sub(Add(w2, x2), y2), z2), Sub(xy, wz), Add(xz, wy),
        Add(xy, wz), Sub(Add(Sub(w2, x2), y2), z2), Sub(yz, wx),
        Sub(xz, wy), Add(yz, wx), Add(Sub(Sub(w2, x2), y2), z2) >>

\* Rotation::operator()(i, j), 0-based as in KDL
At(M, i, j) == M[3 * i + j + 1]

\* KDL::Rotation * KDL::Vector
RotMulVec(M, v) ==
  << Sum3(Mul(M[1], v[1]), Mul(M[2], v[2]), Mul(M[3], v[3])),
     Sum3(Mul(M[4], v[1]), Mul(M[5], v[2]), Mul(M[6], v[3])),
     Sum3(Mul(M[7], v[1]), Mul(M[8], v[2]), Mul(M[9], v[3])) >>

VecAdd(u, v) == <<Add(u[1], v[1]), Add(u[2], v[2]), Add(u[3], v[3])>>

\* KDL::Rotation * KDL::Rotation
RotMulRot(A, B) ==
  [n \in 1..9 |->
     LET i == (n - 1) \div 3
         j == (n - 1) % 3
     IN Sum3(Mul(At(A, i, 0), At(B, 0, j)),
             Mul(At(A, i, 1), At(B, 1, j)),
             Mul(At(A, i, 2), At(B, 2, j)))]

KDLFrame(M, p) == [M |-> M, p |-> p]

\* KDL::Frame * KDL::Vector: M * arg + p
FrameMulVec(F, v) == VecAdd(RotMulVec(F.M, v), F.p)

\* KDL::Frame * KDL::Frame: Frame(lhs.M * rhs.M, lhs.M * rhs.p + lhs.p)
FrameMulFrame(L, R) == KDLFrame(RotMulRot(L.M, R.M), VecAdd(RotMulVec(L.M, R.p), L.p))

\* the test "trace > epsilon" with epsilon = 1E-12: the traces the model's
\* rotations have are -1, 0, 1 and 3, and for them it is the test "trace > 0"
GtEpsilon(trace) == Gt(trace, Zero)

\* KDL::Rotation::GetQuaternion(x, y, z, w)
GetQuaternion(M) ==
  LET trace == Sum3(At(M, 0, 0), At(M, 1, 1), At(M, 2, 2))
  IN IF GtEpsilon(trace)
     THEN LET s == Div(Half, Sqrt(Add(trace, One)))
          IN [w |-> Div(Quarter, s),
              x |-> Mul(Sub(At(M, 2, 1), At(M, 1, 2)), s),
              y |-> Mul(Sub(At(M, 0, 2), At(M, 2, 0)), s),
              z |-> Mul(Sub(At(M, 1, 0), At(M, 0, 1)), s)]
     ELSE IF Gt(At(M, 0, 0), At(M, 1, 1)) /\ Gt(At(M, 0, 0), At(M, 2, 2))
     THEN LET s == Mul(Two, Sqrt(Sub(Sub(Add(One, At(M, 0, 0)), At(M, 1, 1)), At(M, 2, 2))))
          IN [w |-> Div(Sub(At(M, 2, 1), At(M, 1, 2)), s),
              x |-> Mul(Quarter, s),
              y |-> Div(Add(At(M, 0, 1), At(M, 1, 0)), s),
              z |-> Div(Add(At(M, 0, 2), At(M, 2, 0)), s)]
     ELSE IF Gt(At(M, 1, 1), At(M, 2, 2))
     THEN LET s == Mul(Two, Sqrt(Sub(Sub(Add(One, At(M, 1, 1)), At(M, 0, 0)), At(M, 2, 2))))
          IN [w |-> Div(Sub(At(M, 0, 2), At(M, 2, 0)), s),
              x |-> Div(Add(At(M, 0, 1), At(M, 1, 0)), s),
              y |-> Mul(Quarter, s),
              z |-> Div(Add(At(M, 1, 2), At(M, 2, 1)), s)]
     ELSE LET s == Mul(Two, Sqrt(Sub(Sub(Add(One, At(M, 2, 2)), At(M, 0, 0)), At(M, 1, 1))))
          IN [w |-> Div(Sub(At(M, 1, 0), At(M, 0, 1)), s),
              x |-> Div(Add(At(M, 0, 2), At(M, 2, 0)), s),
              y |-> Div(Add(At(M, 1, 2), At(M, 2, 1)), s),
              z |-> Mul(Quarter, s)]

(***************************************************************************)
(* The quaternions of the model: the 48 unit quaternions of the binary     *)
(* octahedral group, that is the unit quaternions whose non-zero           *)
(* components all have the same magnitude, 1, 1/2 or sqrt(2)/2.  They      *)
(* stand for the 24 rotations of the cube, each by q and by -q.            *)
(***************************************************************************)
Components == {Zero, One, Neg(One), Half, Neg(Half), HalfSqrt2, Neg(HalfSqrt2)}

Quat(x, y, z, w) == [x |-> x, y |-> y, z |-> z, w |-> w]

QuatNeg(q) == Quat(Neg(q.x), Neg(q.y), Neg(q.z), Neg(q.w))

Norm2(q) == Add(Add(Mul(q.x, q.x), Mul(q.y, q.y)), Add(Mul(q.z, q.z), Mul(q.w, q.w)))

Magnitude(c) == IF Sign(c) < 0 THEN Neg(c) ELSE c

UnitQuaternions ==
  {q \in [x : Components, y : Components, z : Components, w : Components] :
     /\ Norm2(q) = One
     /\ Cardinality({Magnitude(c) : c \in {q.x, q.y, q.z, q.w}} \ {Zero}) = 1}

IdentityQuaternion == Quat(Zero, Zero, Zero, One)

\* 90 degrees about Z
QuarterTurnZ == Quat(Zero, Zero, HalfSqrt2, HalfSqrt2)

(***************************************************************************)
(* Messages.  A float64 field holds a number; header.stamp is a natural,   *)
(* header.frame_id a string.                                               *)
(***************************************************************************)
Vector3(x, y, z) == [x |-> x, y |-> y, z |-> z]

Pose(p, q) == [position |-> p, orientation |-> q]

Wrench(f, t) == [force |-> f, torque |-> t]

Header(stamp, frame_id) == [stamp |-> stamp, frame_id |-> frame_id]

TransformStamped(header, child, translation, rotation) ==
  [header |-> header, child_frame_id |-> child,
   transform |-> [translation |-> translation, rotation |-> rotation]]

(***************************************************************************)
(* Objects and references.  The memory maps an object name to the message  *)
(* it holds; a reference (const T& t_in, T& t_out, t_in.vector, ...) is    *)
(* the path from the object name to the referenced sub-message, and a      *)
(* field is read and written through it, so that t_in and t_out may be     *)
(* one object.                                                             *)
(***************************************************************************)
RECURSIVE Field(_, _)
Field(r, path) == IF path = <<>> THEN r ELSE Field(r[Head(path)], Tail(path))

RECURSIVE Assign(_, _, _)
Assign(r, path, v) ==
  IF path = <<>> THEN v
  ELSE [r EXCEPT ![Head(path)] = Assign(r[Head(path)], Tail(path), v)]

\* the quaternion handed to KDL with w first
gmTransformToKDL_WFirst(t) ==
  KDLFrame(RotationQuaternion(t.transform.rotation.w, t.transform.rotation.x,
                              t.transform.rotation.y, t.transform.rotation.z),
           KDLVector(t.transform.translation.x, t.transform.translation.y,
                     t.transform.translation.z))

\* lines 57-63
gmTransformToKDL(t) ==
  KDLFrame(RotationQuaternion(t.transform.rotation.x, t.transform.rotation.y,
                              t.transform.rotation.z, t.transform.rotation.w),
           KDLVector(t.transform.translation.x, t.transform.translation.y,
                     t.transform.translation.z))

\* the frame_id left as it was
SetHeader_StampOnly(m, t_out, transform) ==
  Assign(m, t_out \o <<"header", "stamp">>, transform.header.stamp)

\* lines 119-120, 183-184, 250-251, 363-364
SetHeader(m, t_out, transform) ==
  LET m1 == Assign(m, t_out \o <<"header", "stamp">>, transform.header.stamp)
  IN Assign(m1, t_out \o <<"header", "frame_id">>, transform.header.frame_id)

\* the whole frame applied to a free vector
doTransformVector3_WithTranslation(m, t_in, t_out, transform) ==
  LET v_out == FrameMulVec(gmTransformToKDL(transform),
                           KDLVector(Field(m, t_in \o <<"x">>), Field(m, t_in \o <<"y">>),
                                     Field(m, t_in \o <<"z">>)))
      m1 == Assign(m, t_out \o <<"x">>, v_out[1])
      m2 == Assign(m1, t_out \o <<"y">>, v_out[2])
  IN Assign(m2, t_out \o <<"z">>, v_out[3])

\* each component computed from t_in when it is written, without the local v_out
doTransformVector3_InPlace(m, t_in, t_out, transform) ==
  LET M == gmTransformToKDL(transform).M
      read(mm) == KDLVector(Field(mm, t_in \o <<"x">>), Field(mm, t_in \o <<"y">>),
                            Field(mm, t_in \o <<"z">>))
      m1 == Assign(m, t_out \o <<"x">>, RotMulVec(M, read(m))[1])
      m2 == Assign(m1, t_out \o <<"y">>, RotMulVec(M, read(m1))[2])
  IN Assign(m2, t_out \o <<"z">>, RotMulVec(M, read(m2))[3])

\* lines 94-102
doTransformVector3(m, t_in, t_out, transform) ==
  LET v_out == RotMulVec(gmTransformToKDL(transform).M,
                         KDLVector(Field(m, t_in \o <<"x">>), Field(m, t_in \o <<"y">>),
                                   Field(m, t_in \o <<"z">>)))
      m1 == Assign(m, t_out \o <<"x">>, v_out[1])
      m2 == Assign(m1, t_out \o <<"y">>, v_out[2])
  IN Assign(m2, t_out \o <<"z">>, v_out[3])

\* a source whose frame is not the transform's child frame is left untransformed
doTransformVector3Stamped_FrameCheck(m, t_in, t_out, transform) ==
  IF Field(m, t_in \o <<"header", "frame_id">>) # transform.child_frame_id
  THEN m
  ELSE SetHeader(doTransformVector3(m, t_in \o <<"vector">>, t_out \o <<"vector">>, transform),
                 t_out, transform)

\* lines 110-121
doTransformVector3Stamped(m, t_in, t_out, transform) ==
  LET m1 == doTransformVector3(m, t_in \o <<"vector">>, t_out \o <<"vector">>, transform)
  IN SetHeader(m1, t_out, transform)

\* the rotation alone applied to a point
doTransformPointStamped_RotationOnly(m, t_in, t_out, transform) ==
  LET v_out == RotMulVec(gmTransformToKDL(transform).M,
                         KDLVector(Field(m, t_in \o <<"point", "x">>),
                                   Field(m, t_in \o <<"point", "y">>),
                                   Field(m, t_in \o <<"point", "z">>)))
      m1 == Assign(m, t_out \o <<"point", "x">>, v_out[1])
      m2 == Assign(m1, t_out \o <<"point", "y">>, v_out[2])
      m3 == Assign(m2, t_out \o <<"point", "z">>, v_out[3])
  IN SetHeader(m3, t_out, transform)

\* the translation added before the rotation: R * (p + t)
doTransformPointStamped_TranslateFirst(m, t_in, t_out, transform) ==
  LET F == gmTransformToKDL(transform)
      v_out == RotMulVec(F.M, VecAdd(KDLVector(Field(m, t_in \o <<"point", "x">>),
                                               Field(m, t_in \o <<"point", "y">>),
                                               Field(m, t_in \o <<"point", "z">>)), F.p))
      m1 == Assign(m, t_out \o <<"point", "x">>, v_out[1])
      m2 == Assign(m1, t_out \o <<"point", "y">>, v_out[2])
      m3 == Assign(m2, t_out \o <<"point", "z">>, v_out[3])
  IN SetHeader(m3, t_out, transform)

\* lines 175-185
doTransformPointStamped(m, t_in, t_out, transform) ==
  LET v_out == FrameMulVec(gmTransformToKDL(transform),
                           KDLVector(Field(m, t_in \o <<"point", "x">>),
                                     Field(m, t_in \o <<"point", "y">>),
                                     Field(m, t_in \o <<"point", "z">>)))
      m1 == Assign(m, t_out \o <<"point", "x">>, v_out[1])
      m2 == Assign(m1, t_out \o <<"point", "y">>, v_out[2])
      m3 == Assign(m2, t_out \o <<"point", "z">>, v_out[3])
  IN SetHeader(m3, t_out, transform)

\* the frames multiplied in the other order: Frame(r, v) * transform
doTransformPoseStamped_RightCompose(m, t_in, t_out, transform) ==
  LET v == KDLVector(Field(m, t_in \o <<"pose", "position", "x">>),
                     Field(m, t_in \o <<"pose", "position", "y">>),
                     Field(m, t_in \o <<"pose", "position", "z">>))
      r == RotationQuaternion(Field(m, t_in \o <<"pose", "orientation", "x">>),
                              Field(m, t_in \o <<"pose", "orientation", "y">>),
                              Field(m, t_in \o <<"pose", "orientation", "z">>),
                              Field(m, t_in \o <<"pose", "orientation", "w">>))
      v_out == FrameMulFrame(KDLFrame(r, v), gmTransformToKDL(transform))
      q == GetQuaternion(v_out.M)
      m1 == Assign(m, t_out \o <<"pose">>,
                   Pose(Vector3(v_out.p[1], v_out.p[2], v_out.p[3]), q))
  IN SetHeader(m1, t_out, transform)

\* lines 238-252
doTransformPoseStamped(m, t_in, t_out, transform) ==
  LET v == KDLVector(Field(m, t_in \o <<"pose", "position", "x">>),
                     Field(m, t_in \o <<"pose", "position", "y">>),
                     Field(m, t_in \o <<"pose", "position", "z">>))
      r == RotationQuaternion(Field(m, t_in \o <<"pose", "orientation", "x">>),
                              Field(m, t_in \o <<"pose", "orientation", "y">>),
                              Field(m, t_in \o <<"pose", "orientation", "z">>),
                              Field(m, t_in \o <<"pose", "orientation", "w">>))
      v_out == FrameMulFrame(gmTransformToKDL(transform), KDLFrame(r, v))
      m1 == Assign(m, t_out \o <<"pose", "position", "x">>, v_out.p[1])
      m2 == Assign(m1, t_out \o <<"pose", "position", "y">>, v_out.p[2])
      m3 == Assign(m2, t_out \o <<"pose", "position", "z">>, v_out.p[3])
      q == GetQuaternion(v_out.M)
      m4 == Assign(m3, t_out \o <<"pose", "orientation", "w">>, q.w)
      m5 == Assign(m4, t_out \o <<"pose", "orientation", "x">>, q.x)
      m6 == Assign(m5, t_out \o <<"pose", "orientation", "y">>, q.y)
      m7 == Assign(m6, t_out \o <<"pose", "orientation", "z">>, q.z)
  IN SetHeader(m7, t_out, transform)

\* lines 344-350
doTransformWrench(m, t_in, t_out, transform) ==
  LET m1 == doTransformVector3(m, t_in \o <<"force">>, t_out \o <<"force">>, transform)
  IN doTransformVector3(m1, t_in \o <<"torque">>, t_out \o <<"torque">>, transform)

\* lines 358-365
doTransformWrenchStamped(m, t_in, t_out, transform) ==
  LET m1 == doTransformWrench(m, t_in \o <<"wrench">>, t_out \o <<"wrench">>, transform)
  IN SetHeader(m1, t_out, transform)

\* the doTransform specialization overload resolution picks for a message type
doTransform(k, m, t_in, t_out, transform) ==
  CASE k = "Vector3" -> doTransformVector3(m, t_in, t_out, transform)
    [] k = "Vector3Stamped" -> doTransformVector3Stamped(m, t_in, t_out, transform)
    [] k = "PointStamped" -> doTransformPointStamped(m, t_in, t_out, transform)
    [] k = "PoseStamped" -> doTransformPoseStamped(m, t_in, t_out, transform)
    [] k = "Wrench" -> doTransformWrench(m, t_in, t_out, transform)
    [] k = "WrenchStamped" -> doTransformWrenchStamped(m, t_in, t_out, transform)

\* lines 128-132, 192-196, 259-263, 372-376: return in
toMsgVector3Stamped(in) == in
toMsgPointStamped(in) == in
toMsgPoseStamped(in) == in
toMsgWrenchStamped(in) == in

\* lines 139-143, 203-207, 270-274, 383-387: out = msg
fromMsgVector3Stamped(m, msg, out) == Assign(m, out, msg)
fromMsgPointStamped(m, msg, out) == Assign(m, out, msg)
fromMsgPoseStamped(m, msg, out) == Assign(m, out, msg)
fromMsgWrenchStamped(m, msg, out) == Assign(m, out, msg)

\* what a call has when the header defines no function for the argument type
NoDefinition == [defined |-> FALSE]

\* The overloads of toMsg the header defines.  The PoseWithCovarianceStamped
\* section (lines 277-306) ends after getCovarianceMatrix: it defines no toMsg.
toMsg(k, in) ==
  CASE k = "Vector3Stamped" -> toMsgVector3Stamped(in)
    [] k = "PointStamped" -> toMsgPointStamped(in)
    [] k = "PoseStamped" -> toMsgPoseStamped(in)
    [] k = "WrenchStamped" -> toMsgWrenchStamped(in)
    [] OTHER -> NoDefinition

\* The overloads of fromMsg the header defines; none for
\* PoseWithCovarianceStamped, so such a call leaves out as it was.
fromMsg(k, m, msg, out) ==
  CASE k = "Vector3Stamped" -> fromMsgVector3Stamped(m, msg, out)
    [] k = "PointStamped" -> fromMsgPointStamped(m, msg, out)
    [] k = "PoseStamped" -> fromMsgPoseStamped(m, msg, out)
    [] k = "WrenchStamped" -> fromMsgWrenchStamped(m, msg, out)
    [] OTHER -> m

HasConversions(k) == k \in {"Vector3Stamped", "PointStamped", "PoseStamped", "WrenchStamped"}

\* the side of the covariance matrix (std::array<std::array<double, 6>, 6>)
CovDim == 6

\* tf2/convert.h, covarianceRowMajorToNested: row i is elements 6i .. 6i+5
covarianceRowMajorToNested(row_major) ==
  [i \in 0..(CovDim - 1) |-> [j \in 0..(CovDim - 1) |-> row_major[CovDim * i + j]]]

\* the matrix transposed
getCovarianceMatrix_Transposed(t) ==
  [i \in 0..(CovDim - 1) |->
     [j \in 0..(CovDim - 1) |-> covarianceRowMajorToNested(t.pose.covariance)[j][i]]]

\* lines 304-306
getCovarianceMatrix(t) == covarianceRowMajorToNested(t.pose.covariance)

(***************************************************************************)
(* The inputs of the model.                                                *)
(***************************************************************************)
MaxCoord == 1
MaxCalls == 2

Coords == 0..MaxCoord

Vectors == {Vector3(Num(x), Num(y), Num(z)) : x \in Coords, y \in Coords, z \in Coords}

Torques == {Vector3(Zero, Zero, One), Vector3(Num(2), Neg(One), Zero)}

Translations == {Vector3(Zero, Zero, Zero), Vector3(Zero, Zero, Num(5)),
                 Vector3(One, Num(-2), Num(3))}

Positions == {Vector3(Zero, Zero, Zero), Vector3(One, Num(2), Num(3))}

\* identity, 90 degrees about Z, the identity rotation as -1, 120 degrees about
\* (1,1,1), 180 degrees about X, 90 degrees about Y with w < 0
TransformRotations ==
  {IdentityQuaternion, QuarterTurnZ, QuatNeg(IdentityQuaternion),
   Quat(Half, Half, Half, Half), Quat(One, Zero, Zero, Zero),
   Quat(Zero, HalfSqrt2, Zero, Neg(HalfSqrt2))}

\* the orientations with x >= 0 and y >= 0: 23 of the 48, of either sign of z and w
Orientations == {q \in UnitQuaternions : Sign(q.x) >= 0 /\ Sign(q.y) >= 0}

SourceHeaders == {Header(0, "a"), Header(1, "w")}

TransformHeaders == {Header(1, "b"), Header(2, "c")}

\* every transform is meant to map from frame "a"
Transforms ==
  {TransformStamped(h, "a", t, r) : h \in TransformHeaders, t \in Translations,
                                    r \in TransformRotations}

ChainTransforms ==
  {TransformStamped(h, "a", t, r) :
     h \in TransformHeaders,
     t \in {Vector3(Zero, Zero, Num(5)), Vector3(One, Num(-2), Num(3))},
     r \in {QuarterTurnZ, Quat(Half, Half, Half, Half),
            Quat(Zero, HalfSqrt2, Zero, Neg(HalfSqrt2))}}

Covariances ==
  {[n \in 0..(CovDim * CovDim - 1) |-> Num((c * n + d) % 7)] : c \in 0..2, d \in 0..1}

Kinds == {"Vector3", "Vector3Stamped", "PointStamped", "PoseStamped", "Wrench",
          "WrenchStamped", "PoseWithCovarianceStamped"}

\* the messages a caller passes as t_in
Messages(k) ==
  CASE k = "Vector3" -> Vectors
    [] k = "Vector3Stamped" -> {[header |-> h, vector |-> v] : h \in SourceHeaders, v \in Vectors}
    [] k = "PointStamped" -> {[header |-> h, point |-> v] : h \in SourceHeaders, v \in Vectors}
    [] k = "PoseStamped" ->
         {[header |-> h, pose |-> Pose(p, q)] :
            h \in SourceHeaders, p \in Positions, q \in Orientations}
    [] k = "Wrench" -> {Wrench(f, t) : f \in Vectors, t \in Torques}
    [] k = "WrenchStamped" ->
         {[header |-> h, wrench |-> Wrench(f, t)] :
            h \in SourceHeaders, f \in Vectors, t \in Torques}
    [] k = "PoseWithCovarianceStamped" ->
         {[header |-> h, pose |-> [pose |-> Pose(p, IdentityQuaternion), covariance |-> c]] :
            h \in SourceHeaders, p \in Positions, c \in Covariances}

\* what a distinct output object holds before the call
StaleVector == Vector3(Num(7), Num(8), Num(9))
StaleHeader == Header(3, "stale")
Stale(k) ==
  CASE k = "Vector3" -> StaleVector
    [] k = "Vector3Stamped" -> [header |-> StaleHeader, vector |-> StaleVector]
    [] k = "PointStamped" -> [header |-> StaleHeader, point |-> StaleVector]
    [] k = "PoseStamped" ->
         [header |-> StaleHeader, pose |-> Pose(StaleVector, Quat(Zero, One, Zero, Zero))]
    [] k = "Wrench" -> Wrench(StaleVector, StaleVector)
    [] k = "WrenchStamped" -> [header |-> StaleHeader, wrench |-> Wrench(StaleVector, StaleVector)]
    [] k = "PoseWithCovarianceStamped" ->
         [header |-> StaleHeader,
          pose |-> [pose |-> Pose(StaleVector, Quat(Zero, One, Zero, Zero)),
                    covariance |-> [n \in 0..(CovDim * CovDim - 1) |-> Num(9)]]]

\* the headers a source may have had instead of its own
AllHeaders == SourceHeaders \cup TransformHeaders \cup {StaleHeader, Header(2, "a")}

Objects == {"a", "b"}

(***************************************************************************)
(* A caller holds a message in object a and an output object b, and either *)
(* applies transforms to it (calls of them in a chain, each taking the     *)
(* previous output as its input), or converts it, or takes its covariance. *)
(***************************************************************************)
VARIABLES
  kind,     \* the message type of the run
  calls,    \* how many doTransform calls the caller makes
  source,   \* the message the caller started with
  mem,      \* the objects
  pre,      \* the objects before the last call
  t_in,     \* the object the last call read
  t_out,    \* the object the last call wrote
  applied,  \* the transforms applied so far
  op,       \* the last function called
  ret       \* what it returned

vars == <<kind, calls, source, mem, pre, t_in, t_out, applied, op, ret>>

Start(k, x, n) ==
  /\ kind = k
  /\ calls = n
  /\ source = x
  /\ mem = [a |-> x, b |-> Stale(k)]
  /\ pre = mem
  /\ t_in = "a"
  /\ t_out = "b"
  /\ applied = <<>>
  /\ op = "none"
  /\ ret = NoDefinition

Init == \E k \in Kinds : \E x \in Messages(k) : Start(k, x, 1)

\* a doTransform call: reads mem through in, writes it through out
Call(k, after, out, tr) ==
  /\ kind = k
  /\ op \in {"none", "doTransform"}
  /\ Len(applied) < calls
  /\ mem' = after
  /\ pre' = mem
  /\ t_in' = (IF applied = <<>> THEN "a" ELSE t_out)
  /\ t_out' = out
  /\ applied' = Append(applied, tr)
  /\ op' = "doTransform"
  /\ UNCHANGED <<kind, calls, source, ret>>

NextIn == IF applied = <<>> THEN "a" ELSE t_out

DoTransformVector3(out, tr) ==
  Call("Vector3", doTransformVector3(mem, <<NextIn>>, <<out>>, tr), out, tr)

DoTransformVector3Stamped(out, tr) ==
  Call("Vector3Stamped", doTransformVector3Stamped(mem, <<NextIn>>, <<out>>, tr), out, tr)

DoTransformPointStamped(out, tr) ==
  Call("PointStamped", doTransformPointStamped(mem, <<NextIn>>, <<out>>, tr), out, tr)

DoTransformPoseStamped(out, tr) ==
  Call("PoseStamped", doTransformPoseStamped(mem, <<NextIn>>, <<out>>, tr), out, tr)

DoTransformWrench(out, tr) ==
  Call("Wrench", doTransformWrench(mem, <<NextIn>>, <<out>>, tr), out, tr)

DoTransformWrenchStamped(out, tr) ==
  Call("WrenchStamped", doTransformWrenchStamped(mem, <<NextIn>>, <<out>>, tr), out, tr)

StampedKinds == Kinds \ {"Vector3", "Wrench"}

\* toMsg(a)
ToMsg ==
  /\ kind \in StampedKinds
  /\ op = "none"
  /\ ret' = toMsg(kind, mem.a)
  /\ op' = "toMsg"
  /\ pre' = mem
  /\ UNCHANGED <<kind, calls, source, mem, t_in, t_out, applied>>

\* fromMsg(toMsg(a), b)
FromMsg ==
  /\ op = "toMsg"
  /\ mem' = fromMsg(kind, mem, ret, <<"b">>)
  /\ op' = "fromMsg"
  /\ pre' = mem
  /\ UNCHANGED <<kind, calls, source, t_in, t_out, applied, ret>>

\* getCovarianceMatrix(a)
GetCovarianceMatrix ==
  /\ kind = "PoseWithCovarianceStamped"
  /\ op = "none"
  /\ ret' = getCovarianceMatrix(mem.a)
  /\ op' = "getCovarianceMatrix"
  /\ pre' = mem
  /\ UNCHANGED <<kind, calls, source, mem, t_in, t_out, applied>>

Next ==
  \/ \E out \in Objects, tr \in Transforms : DoTransformVector3(out, tr)
  \/ \E out \in Objects, tr \in Transforms : DoTransformVector3Stamped(out, tr)
  \/ \E out \in Objects, tr \in Transforms : DoTransformPointStamped(out, tr)
  \/ \E out \in Objects, tr \in Transforms : DoTransformPoseStamped(out, tr)
  \/ \E out \in Objects, tr \in Transforms : DoTransformWrench(out, tr)
  \/ \E out \in Objects, tr \in Transforms : DoTransformWrenchStamped(out, tr)
  \/ ToMsg
  \/ FromMsg
  \/ GetCovarianceMatrix

Spec == Init /\ [][Next]_vars

\* a chain of MaxCalls doTransform calls on a PointStamped
ChainPoints ==
  {[header |-> Header(0, "a"), point |-> v] :
     v \in {Vector3(One, Zero, Zero), Vector3(One, Num(2), Num(3))}}

InitChain == \E x \in ChainPoints : Start("PointStamped", x, MaxCalls)

NextChain == \E out \in Objects, tr \in ChainTransforms : DoTransformPointStamped(out, tr)

SpecChain == InitChain /\ [][NextChain]_vars

(***************************************************************************)
(* Quaternion algebra, for stating what a rotation and a composition are   *)
(* independently of KDL's matrices: the Hamilton product, and the rotation *)
(* of a vector v by a unit quaternion q as q * (v, 0) * conj(q).           *)
(***************************************************************************)
QMul(p, q) ==
  Quat(Add(Sub(Add(Mul(p.w, q.x), Mul(p.x, q.w)), Mul(p.z, q.y)), Mul(p.y, q.z)),
       Add(Add(Sub(Mul(p.w, q.y), Mul(p.x, q.z)), Mul(p.y, q.w)), Mul(p.z, q.x)),
       Add(Sub(Add(Mul(p.w, q.z), Mul(p.x, q.y)), Mul(p.y, q.x)), Mul(p.z, q.w)),
       Sub(Sub(Sub(Mul(p.w, q.w), Mul(p.x, q.x)), Mul(p.y, q.y)), Mul(p.z, q.z)))

QConj(q) == Quat(Neg(q.x), Neg(q.y), Neg(q.z), q.w)

QRotate(q, v) ==
  LET r == QMul(QMul(q, Quat(v.x, v.y, v.z, Zero)), QConj(q))
  IN Vector3(r.x, r.y, r.z)

VPlus(u, v) == Vector3(Add(u.x, v.x), Add(u.y, v.y), Add(u.z, v.z))

\* R * p + t for the rotation R and the translation t of a transform message
Rigid(tr, p) == VPlus(QRotate(tr.transform.rotation, p), tr.transform.translation)

\* T2 o T1: rotation R2 * R1, translation R2 * t1 + t2
Compose(T2, T1) ==
  TransformStamped(T2.header, T1.child_frame_id,
                   Rigid(T2, T1.transform.translation),
                   QMul(T2.transform.rotation, T1.transform.rotation))

RECURSIVE ComposeAll(_)
ComposeAll(ts) ==
  IF Len(ts) = 1 THEN ts[1]
  ELSE Compose(ts[Len(ts)], ComposeAll(SubSeq(ts, 1, Len(ts) - 1)))

Transformed == op = "doTransform"

Last == applied[Len(applied)]

In == pre[t_in]

Out == mem[t_out]

Other(o) == IF o = "a" THEN "b" ELSE "a"

WithTranslation(tr, t) == [tr EXCEPT !.transform.translation = t]

\* the result of the last call had its inputs been m and tr
Redo(m, tr) == doTransform(kind, m, <<t_in>>, <<t_out>>, tr)[t_out]

IsIdentityRotation(q) == q \in {IdentityQuaternion, QuatNeg(IdentityQuaternion)}

Stamped == kind \in {"Vector3Stamped", "PointStamped", "PoseStamped", "WrenchStamped"}

(***************************************************************************)
(* C1: doTransform on a PointStamped applies the full rigid transform: the *)
(* result point is R * p + t for the rotation R and the translation t of   *)
(* the transform; the point (1,0,0) of frame "a" under the rotation of 90  *)
(* degrees about Z with translation (0,0,5) and target frame "b" becomes   *)
(* (0,1,5) in frame "b".                                                   *)
(***************************************************************************)
ScenarioTransform ==
  TransformStamped(Header(1, "b"), "a", Vector3(Zero, Zero, Num(5)), QuarterTurnZ)

ScenarioCall ==
  /\ Transformed
  /\ kind = "PointStamped"
  /\ In.point = Vector3(One, Zero, Zero)
  /\ In.header.frame_id = "a"
  /\ Last = ScenarioTransform

\* C1: the result point of doTransform(PointStamped) is R * p + t, and the scenario gives (0,1,5) in frame "b"
C1_PointFullRigid ==
  (Transformed /\ kind = "PointStamped") =>
    /\ Out.point = Rigid(Last, In.point)
    /\ ScenarioCall =>
         /\ Out.point = Vector3(Zero, One, Num(5))
         /\ Out.header.frame_id = "b"

C1_Witness ==
  /\ ScenarioCall
  /\ Out.point = Vector3(Zero, One, Num(5))
  /\ Out.header.frame_id = "b"

(***************************************************************************)
(* C2: doTransform on a Vector3, and on the force and the torque of a      *)
(* Wrench, yields R * v; the result does not depend on the transform's     *)
(* translation; with the identity rotation and any translation the vector, *)
(* the force and the torque are unchanged.                                 *)
(***************************************************************************)
\* C2: doTransform on a Vector3 and on the force and torque of a Wrench is R * v, whatever the translation
C2_RotationOnly ==
  (Transformed /\ kind \in {"Vector3", "Wrench"}) =>
    LET q == Last.transform.rotation
    IN /\ kind = "Vector3" => Out = QRotate(q, In)
       /\ kind = "Wrench" =>
            /\ Out.force = QRotate(q, In.force)
            /\ Out.torque = QRotate(q, In.torque)
       /\ \A t \in Translations : Redo(pre, WithTranslation(Last, t)) = Out
       /\ IsIdentityRotation(q) => Out = In

C2_Witness ==
  /\ Transformed
  /\ kind = "Wrench"
  /\ Last.transform.rotation = IdentityQuaternion
  /\ Last.transform.translation = Vector3(One, Num(-2), Num(3))
  /\ In.force = Vector3(One, Zero, One)
  /\ Out = In

(***************************************************************************)
(* C3: doTransform on a PoseStamped maps the position by R * p + t and the *)
(* orientation q to a quaternion of the rotation R(transform) * R(q) (the  *)
(* product of the transform's quaternion and q, up to sign); the result    *)
(* orientation depends neither on the translation nor on the source        *)
(* position, the result position not on the source orientation.            *)
(***************************************************************************)
WithPosition(m, p) == Assign(m, <<t_in, "pose", "position">>, p)

WithOrientation(m, q) == Assign(m, <<t_in, "pose", "orientation">>, q)

\* C3: position R * p + t, orientation a quaternion of R(transform) * R(q); each independent of the other inputs
C3_PoseTransform ==
  (Transformed /\ kind = "PoseStamped") =>
    LET qq == QMul(Last.transform.rotation, In.pose.orientation)
    IN /\ Out.pose.position = Rigid(Last, In.pose.position)
       /\ Out.pose.orientation \in {qq, QuatNeg(qq)}
       /\ RotationQuaternion(Out.pose.orientation.x, Out.pose.orientation.y,
                             Out.pose.orientation.z, Out.pose.orientation.w)
            = RotMulRot(gmTransformToKDL(Last).M,
                        RotationQuaternion(In.pose.orientation.x, In.pose.orientation.y,
                                           In.pose.orientation.z, In.pose.orientation.w))
       /\ \A t \in Translations :
            Redo(pre, WithTranslation(Last, t)).pose.orientation = Out.pose.orientation
       /\ \A p \in Positions :
            Redo(WithPosition(pre, p), Last).pose.orientation = Out.pose.orientation
       /\ \A q \in TransformRotations :
            Redo(WithOrientation(pre, q), Last).pose.position = Out.pose.position

C3_Witness ==
  /\ Transformed
  /\ kind = "PoseStamped"
  /\ Last.transform.rotation = QuarterTurnZ
  /\ Last.transform.translation = Vector3(Zero, Zero, Num(5))
  /\ In.pose = Pose(Vector3(One, Num(2), Num(3)), Quat(Half, Half, Half, Half))
  /\ Out.pose = Pose(Vector3(Num(-2), One, Num(8)), Quat(Zero, HalfSqrt2, HalfSqrt2, Zero))

(***************************************************************************)
(* C4: after doTransform on a Vector3Stamped, PointStamped, PoseStamped or *)
(* WrenchStamped the result's header.stamp and header.frame_id are the     *)
(* transform's, whatever the source header and the output object's header  *)
(* were.                                                                   *)
(***************************************************************************)
\* C4: the result header of every stamped doTransform is the header of the transform
C4_HeaderOverwrite ==
  (Transformed /\ Stamped) =>
    /\ Out.header.stamp = Last.header.stamp
    /\ Out.header.frame_id = Last.header.frame_id

C4_Witness ==
  /\ Transformed
  /\ kind = "WrenchStamped"
  /\ t_out = "b"
  /\ pre.b.header = StaleHeader
  /\ In.header = Header(0, "a")
  /\ Last.header = Header(2, "c")
  /\ Out.header = Header(2, "c")

(***************************************************************************)
(* C5: no frame-identity check: two stamped sources with the same payload  *)
(* and different headers give the same result (payload and header) under   *)
(* the same transform, and a call whose source frame_id is not the frame   *)
(* the transform maps from is made like any other.                         *)
(***************************************************************************)
WithHeader(m, h) == Assign(m, <<t_in, "header">>, h)

\* C5: the result of a stamped doTransform does not depend on the source header, also when its frame is not the one the transform maps from
C5_NoFrameCheck ==
  (Transformed /\ Stamped) =>
    /\ \A h \in AllHeaders : Redo(WithHeader(pre, h), Last) = Out
    /\ In.header.frame_id # Last.child_frame_id =>
         /\ Out.header = Last.header
         /\ Out = Redo(WithHeader(pre, Header(In.header.stamp, Last.child_frame_id)), Last)

C5_Witness ==
  /\ Transformed
  /\ kind = "Vector3Stamped"
  /\ In.header.frame_id = "w"
  /\ Last.child_frame_id = "a"
  /\ Last.transform.rotation = QuarterTurnZ
  /\ In.vector = Vector3(One, Zero, Zero)
  /\ Out.vector = Vector3(Zero, One, Zero)
  /\ Out.header = Last.header

(***************************************************************************)
(* C6: applying T1 and then T2 to a point gives the point one doTransform  *)
(* with the composed transform T2 o T1 (rotation R2 * R1, translation      *)
(* R2 * t1 + t2) gives, and the final header is that of T2.                *)
(***************************************************************************)
Once(x, tr) == doTransformPointStamped([a |-> x, b |-> Stale("PointStamped")], <<"a">>, <<"b">>, tr).b

\* C6: doTransform with T1 and then with T2 equals one doTransform with T2 o T1, with the header of T2
C6_Composition ==
  (Transformed /\ kind = "PointStamped" /\ Len(applied) >= 2) =>
    /\ Out.point = Once(source, ComposeAll(applied)).point
    /\ Out.point = Rigid(ComposeAll(applied), source.point)
    /\ Out.header = Last.header

C6_Witness ==
  /\ Transformed
  /\ kind = "PointStamped"
  /\ Len(applied) = 2
  /\ source.point = Vector3(One, Zero, Zero)
  /\ applied[1].transform = [translation |-> Vector3(Zero, Zero, Num(5)), rotation |-> QuarterTurnZ]
  /\ applied[2].transform = [translation |-> Vector3(One, Num(-2), Num(3)),
                             rotation |-> Quat(Half, Half, Half, Half)]
  /\ applied[1].header = Header(1, "b")
  /\ applied[2].header = Header(2, "c")
  /\ Out.point = Vector3(Num(6), Num(-2), Num(4))
  /\ Out.header = Header(2, "c")

(***************************************************************************)
(* C7: doTransform with the identity transform (translation 0, rotation    *)
(* (0,0,0,1)) returns the input payload for every supported type; only the *)
(* header may differ.                                                      *)
(* As stated this fails for the orientation of a PoseStamped, which is     *)
(* rebuilt from a rotation matrix by GetQuaternion and comes back as -q    *)
(* for half of the quaternions.  Amended: the payload is returned          *)
(* unchanged, except that the orientation q of a PoseStamped is returned   *)
(* as q or as -q, a quaternion of the same rotation.                       *)
(***************************************************************************)
IdentityApplied ==
  /\ Transformed
  /\ Last.transform.rotation = IdentityQuaternion
  /\ Last.transform.translation = Vector3(Zero, Zero, Zero)

Payload(msg) ==
  CASE kind = "Vector3Stamped" -> msg.vector
    [] kind = "PointStamped" -> msg.point
    [] kind = "PoseStamped" -> msg.pose
    [] kind = "WrenchStamped" -> msg.wrench
    [] OTHER -> msg

\* C7 as stated: the identity transform returns the input payload, orientation quaternion included
C7_IdentityPayloadEqual == IdentityApplied => Payload(Out) = Payload(In)

\* C7 amended: the identity transform returns the input payload, the orientation of a PoseStamped up to sign
C7_IdentityUpToSign ==
  IdentityApplied =>
    IF kind = "PoseStamped"
    THEN /\ Out.pose.position = In.pose.position
         /\ Out.pose.orientation \in {In.pose.orientation, QuatNeg(In.pose.orientation)}
    ELSE Payload(Out) = Payload(In)

C7_Witness ==
  /\ IdentityApplied
  /\ kind = "PoseStamped"
  /\ In.pose = Pose(Vector3(One, Num(2), Num(3)), Quat(Zero, Zero, Neg(HalfSqrt2), Neg(HalfSqrt2)))
  /\ Out.pose = Pose(Vector3(One, Num(2), Num(3)), Quat(Zero, Zero, HalfSqrt2, HalfSqrt2))

(***************************************************************************)
(* C8: for the five stamped types toMsg(x) is x and fromMsg(toMsg(x), out) *)
(* leaves out equal to x.                                                  *)
(* The header defines toMsg and fromMsg for four of them and none for      *)
(* PoseWithCovarianceStamped.                                              *)
(***************************************************************************)
\* C8: toMsg(x) is x and fromMsg(toMsg(x), out) leaves out equal to x, for all five stamped types
C8_IdentityConversions ==
  /\ op = "toMsg" => ret = source
  /\ op = "fromMsg" => (ret = source /\ mem.b = source /\ mem.a = source)

\* the four types the header converts
C8_DefinedConversions == HasConversions(kind) => C8_IdentityConversions

(***************************************************************************)
(* C9: getCovarianceMatrix returns the 6x6 matrix whose entry [i][j] is    *)
(* element 6*i + j of the flat covariance array; flattening it in          *)
(* row-major order gives the array back; nothing is altered or made        *)
(* symmetric.                                                              *)
(***************************************************************************)
Flatten(nested) == [n \in 0..(CovDim * CovDim - 1) |-> nested[n \div CovDim][n % CovDim]]

\* C9: getCovarianceMatrix()[i][j] is element 6*i + j of the covariance array, and flattening gives the array back
C9_CovarianceReshape ==
  op = "getCovarianceMatrix" =>
    /\ \A i, j \in 0..(CovDim - 1) : ret[i][j] = source.pose.covariance[CovDim * i + j]
    /\ Flatten(ret) = source.pose.covariance
    /\ mem = pre

C9_Witness ==
  /\ op = "getCovarianceMatrix"
  /\ source.pose.covariance[1] # source.pose.covariance[CovDim]
  /\ ret[0][1] = source.pose.covariance[1]
  /\ ret[1][0] = source.pose.covariance[CovDim]
  /\ Flatten(ret) = source.pose.covariance

(***************************************************************************)
(* C10: for every doTransform specialization, a call with t_out the same   *)
(* object as t_in leaves in it the value a call with a distinct output     *)
(* object leaves in that object.                                           *)
(***************************************************************************)
Apart == doTransform(kind, pre, <<t_in>>, <<Other(t_in)>>, Last)[Other(t_in)]

\* C10: doTransform with t_out the same object as t_in gives the value it gives with a distinct t_out
C10_InPlace == (Transformed /\ t_in = t_out) => Out = Apart

C10_Witness ==
  /\ Transformed
  /\ t_in = t_out
  /\ kind = "Wrench"
  /\ Last.transform.rotation = QuarterTurnZ
  /\ In = Wrench(Vector3(One, Zero, One), Vector3(Num(2), Neg(One), Zero))
  /\ Out = Wrench(Vector3(Zero, One, One), Vector3(One, Num(2), Zero))
  /\ Out = Apart

====
